---- MODULE Spec2Model ----
(***************************************************************************)
(* A model of DBConnect.py: the DBConnect facade over four database        *)
(* drivers (Oracle, SQL Server, PostgreSQL, MySQL).  The object's fields   *)
(* (connection, lastResult, dataFrame) and the native handles the drivers  *)
(* hand out are the state; every public method is one action.  The driver  *)
(* is the environment: whether an open, a statement, a commit or a close   *)
(* fails is chosen by it, and so is what a failed close leaves behind.     *)
(***************************************************************************)
EXTENDS Integers, Sequences, FiniteSets, TLC

\* ------------------------------------------------------------------ bounds
MaxHandles == 2      \* native connections the driver opens in one behaviour
MaxK == 2            \* largest affected-row count of a DML/DDL statement
MaxRows == 2         \* largest number of rows a SELECT yields
MaxEntries == 2      \* longest config file, in entries

\* ------------------------------------------------------- program constants
ORACLE == "oracle"
SQL_SERVER == "sqlserver"
POSTGRESQL == "postgresql"
MYSQL == "mysql"
DBType == {ORACLE, SQL_SERVER, POSTGRESQL, MYSQL}

\* An rdbms value of a config entry that is no member of DBType.
OtherType == "sqlite"
RdbmsValues == DBType \cup {OtherType}

\* self.connection = None
NoConnection == 0
Handles == 1..MaxHandles

\* ------------------------------------------------------------------ values
\* Python values the object stores or returns, tagged by their type.
None == [tag |-> "none"]
List(rows) == [tag |-> "list", rows |-> rows]
Row(row) == [tag |-> "row", row |-> row]
Bool(b) == [tag |-> "bool", b |-> b]

\* --------------------------------------------------------------- statements
\* What the database does with a statement.  kind says what the cursor holds
\* after execute: "select" a result set of n rows, "dml" no result set and n
\* rows affected, "bad" nothing, the backend having rejected the statement.
\* tag is the command tag PostgreSQL reports for it, which does not follow
\* from kind: UPDATE ... RETURNING yields rows under the tag UPDATE, and
\* CREATE TABLE AS yields none under the tag SELECT.
Tags == {"SELECT", "UPDATE"}
NoSql == [kind |-> "none", n |-> 0, tag |-> "none"]
Statements ==
    [kind : {"dml"}, n : 0..MaxK, tag : Tags]
        \cup [kind : {"select"}, n : 0..MaxRows, tag : Tags]
        \cup [kind : {"bad"}, n : {0}, tag : {"none"}]

\* The column names of every SELECT of the model, in cursor order.
Columns == <<"id", "name">>
\* The i-th row of a result set, as the tuple a plain cursor fetches.
RawRow(i) == <<i, -i>>

Min(a, b) == IF a < b THEN a ELSE b

\* dict(zip(keys, vals)): the last value wins for a repeated key.
DictZip(keys, vals) ==
    LET n == Min(Len(keys), Len(vals))
        last(k) == CHOOSE i \in 1..n :
                       /\ keys[i] = k
                       /\ \A j \in 1..n : keys[j] = k => j <= i
    IN  [k \in {keys[i] : i \in 1..n} |-> vals[last(k)]]

\* ------------------------------------------------------------ driver cursor
\* cur.description: None for a statement that produces no rows.
description(sql) == IF sql.kind = "select" THEN Columns ELSE <<>>
hasDescription(sql) == sql.kind = "select"
\* cur.rowcount, and the value MySQLdb's cur.execute returns.
rowcount(sql) == sql.n
\* The first six characters of psycopg2's cur.statusmessage.
statusmessage(sql) == sql.tag
\* cur.fetchall() of a plain (tuple) cursor.
fetchTuples(sql) ==
    IF sql.kind = "select" THEN [i \in 1..sql.n |-> RawRow(i)] ELSE <<>>
\* cur.fetchall() of a dict cursor (as_dict, RealDictCursor, DictCursor).
fetchDicts(sql) ==
    IF sql.kind = "select"
    THEN [i \in 1..sql.n |-> DictZip(Columns, RawRow(i))]
    ELSE <<>>
\* pymssql raises OperationalError from fetchall when there is no result set.
fetchRaises(sql) == sql.kind # "select"
\* psycopg2 raises ProgrammingError, a DatabaseError, from fetchall when
\* there is no result set; the PostgreSQL branch calls fetchall whenever the
\* tag is SELECT and the row count is above zero.
pgFetchRaises(sql) ==
    statusmessage(sql) = "SELECT" /\ rowcount(sql) > 0 /\ ~hasDescription(sql)

AffectedRow(k) == [c \in {"Row(s) affected"} |-> k]

\* ------------------------------------------------------ result normalizers
oracleResults(sql) ==
    IF ~hasDescription(sql)
    THEN <<AffectedRow(rowcount(sql))>>
    ELSE LET columns == description(sql)
             rows == fetchTuples(sql)
         IN  [i \in 1..Len(rows) |-> DictZip(columns, rows[i])]

sqlServerResults(sql) ==
    IF fetchRaises(sql)
    THEN <<AffectedRow(rowcount(sql))>>
    ELSE fetchDicts(sql)

\* pgResults with the rows collected back to front.
pgResults_reversed(sql) ==
    IF statusmessage(sql) = "SELECT" /\ rowcount(sql) > 0
    THEN LET rawResults == fetchDicts(sql)
         IN  [i \in 1..Len(rawResults) |->
                 rawResults[Len(rawResults) + 1 - i]]
    ELSE <<AffectedRow(rowcount(sql))>>

\* pgResults fetching the rows of every SELECT, whatever its row count.
pgResults_anyselect(sql) ==
    IF statusmessage(sql) = "SELECT"
    THEN LET rawResults == fetchDicts(sql)
         IN  [i \in 1..Len(rawResults) |-> rawResults[i]]
    ELSE <<AffectedRow(rowcount(sql))>>

pgResults(sql) ==
    IF statusmessage(sql) = "SELECT" /\ rowcount(sql) > 0
    THEN LET rawResults == fetchDicts(sql)
         IN  [i \in 1..Len(rawResults) |-> rawResults[i]]
    ELSE <<AffectedRow(rowcount(sql))>>

\* mySqlResults handing back the fetched rows as they are, empty or not.
mySqlResults_asfetched(sql) == fetchDicts(sql)

mySqlResults(sql) ==
    LET rowCount == rowcount(sql)
        results == fetchDicts(sql)
    IN  IF Len(results) = 0 THEN <<AffectedRow(rowCount)>> ELSE results

\* ------------------------------------------------------------- _getDetails
\* The JSON config file: a list of entries, each with its connection-name,
\* its active flag and its rdbms (the other keys play no part in the lookup).
Names == {"reporting", "billing"}
Entries ==
    {[k \in {"connection-name", "active", "rdbms"} |->
         IF k = "connection-name" THEN n ELSE IF k = "active" THEN a ELSE r] :
       n \in Names, a \in BOOLEAN, r \in {MYSQL, ORACLE}}
ConfigFiles ==
    UNION {[1..n -> Entries] : n \in 0..MaxEntries}

\* The for loop of _getDetails from entry i on: the first entry that is
\* active and carries the name is returned; past the end ValueError is raised.
RECURSIVE scanFrom(_, _, _)
scanFrom(connectionEntries, name, i) ==
    IF i > Len(connectionEntries)
    THEN [raised |-> "ValueError", ret |-> None]
    ELSE LET entry == connectionEntries[i]
         IN  IF entry["active"] /\ entry["connection-name"] = name
             THEN [raised |-> "none", ret |-> entry]
             ELSE scanFrom(connectionEntries, name, i + 1)

\* _getDetails taking the first entry of the name, active or not.
getDetails_anyentry(connectionEntries, name) ==
    IF \E i \in 1..Len(connectionEntries) :
           connectionEntries[i]["connection-name"] = name
    THEN [raised |-> "none",
          ret |-> connectionEntries[
                     CHOOSE i \in 1..Len(connectionEntries) :
                        /\ connectionEntries[i]["connection-name"] = name
                        /\ \A j \in 1..(i - 1) :
                              connectionEntries[j]["connection-name"] # name]]
    ELSE [raised |-> "ValueError", ret |-> None]

getDetails(connectionEntries, name) == scanFrom(connectionEntries, name, 1)

\* -------------------------------------------------------------------- state
VARIABLES
    rdbms,        \* self.connDetails['rdbms']
    connection,   \* self.connection: NoConnection or a native handle
    lastResult,   \* self.lastResult
    dataFrame,    \* self.dataFrame
    hs,           \* each native handle: "unopened", "open" or "closed"
    call,         \* the method call that has just returned or raised: its
                  \* arguments, driver events and outcome; Idle once the
                  \* caller has taken it
    trail         \* how much of the sequence connect(), disconnect() the
                  \* calls before this one make up (0, 1 or 2); kept only
                  \* by SpecTrail

vars == <<rdbms, connection, lastResult, dataFrame, hs, call, trail>>

\* The driver's choices during one method call.
Faults == {"none", "open", "commit", "close_open", "close_closed"}
Envs == [fault : Faults, probeErr : BOOLEAN]

\* The object and the handles as one value the methods transform; ev is the
\* sequence of driver calls (and calls of connect) the method has made, oom
\* says the bound on handles was hit.
Self ==
    [connection |-> connection, lastResult |-> lastResult,
     dataFrame |-> dataFrame, hs |-> hs, ev |-> <<>>, oom |-> FALSE]

Ev(s, e, h, r) == [s EXCEPT !.ev = Append(@, [e |-> e, h |-> h, r |-> r])]

\* ------------------------------------------------------------------ status
\* What the backend's liveness probe does on the stored handle.
probe(s, env) ==
    IF s.hs[s.connection] = "open" THEN "alive"
    ELSE IF env.probeErr /\ rdbms \in {ORACLE, SQL_SERVER} THEN "error"
    ELSE "notalive"

\* status taking a probe that fails for a live connection.
status_erroralive(s, env) ==
    IF s.connection = NoConnection THEN [s |-> s, ret |-> FALSE]
    ELSE IF rdbms \in DBType
    THEN LET p == probe(s, env)
         IN  [s |-> Ev(s, "probe", s.connection, p),
              ret |-> (p # "notalive")]
    ELSE [s |-> s, ret |-> FALSE]

status(s, env) ==
    IF s.connection = NoConnection THEN [s |-> s, ret |-> FALSE]
    ELSE IF rdbms \in DBType
    THEN LET p == probe(s, env)
         IN  [s |-> Ev(s, "probe", s.connection, p), ret |-> (p = "alive")]
    ELSE [s |-> s, ret |-> FALSE]

\* ----------------------------------------------------------------- connect
\* The driver's connect call inside the four _xConnection helpers: the
\* helper catches the driver's DatabaseError and falls off its end.
driverConnect(s, env) ==
    IF env.fault = "open"
    THEN [s |-> Ev(s, "open", NoConnection, "fail"), ret |-> NoConnection]
    ELSE IF \A h \in Handles : s.hs[h] # "unopened"
    THEN [s |-> [s EXCEPT !.oom = TRUE], ret |-> NoConnection]
    ELSE LET h == CHOOSE g \in Handles :
                      /\ s.hs[g] = "unopened"
                      /\ \A f \in Handles : s.hs[f] = "unopened" => g <= f
         IN  [s |-> Ev([s EXCEPT !.hs[h] = "open"], "open", h, "ok"),
              ret |-> h]

oracleConnection(s, env) == driverConnect(s, env)
sqlServerConnection(s, env) == driverConnect(s, env)
pgConnection(s, env) == driverConnect(s, env)
mySqlConnection(s, env) == driverConnect(s, env)

\* The assignment skipped when the helper returns None.
Stored_keep(r) ==
    [s |-> IF r.ret = NoConnection THEN r.s
           ELSE [r.s EXCEPT !.connection = r.ret],
     raised |-> "none"]

\* self.connection = self._xConnection()
Stored(r) == [s |-> [r.s EXCEPT !.connection = r.ret], raised |-> "none"]

\* connect leaving an unknown rdbms alone instead of raising.
connect_silent(s, env) ==
    LET s0 == Ev(s, "connect", s.connection, "call")
    IN  IF rdbms = ORACLE THEN Stored(oracleConnection(s0, env))
        ELSE IF rdbms = SQL_SERVER THEN Stored(sqlServerConnection(s0, env))
        ELSE IF rdbms = POSTGRESQL THEN Stored(pgConnection(s0, env))
        ELSE IF rdbms = MYSQL THEN Stored(mySqlConnection(s0, env))
        ELSE [s |-> s0, raised |-> "none"]

connect(s, env) ==
    LET s0 == Ev(s, "connect", s.connection, "call")
    IN  IF rdbms = ORACLE THEN Stored(oracleConnection(s0, env))
        ELSE IF rdbms = SQL_SERVER THEN Stored(sqlServerConnection(s0, env))
        ELSE IF rdbms = POSTGRESQL THEN Stored(pgConnection(s0, env))
        ELSE IF rdbms = MYSQL THEN Stored(mySqlConnection(s0, env))
        ELSE [s |-> s0, raised |-> "ValueError"]

\* -------------------------------------------------------------- disconnect
\* self.connection.close() inside its try: a DatabaseError is logged and
\* absorbed, and the driver decides whether the handle is closed by then.
close(s, env) ==
    LET h == s.connection
    IN  IF env.fault = "close_open" THEN Ev(s, "close", h, "fail")
        ELSE IF env.fault = "close_closed"
        THEN Ev([s EXCEPT !.hs[h] = "closed"], "close", h, "fail")
        ELSE Ev([s EXCEPT !.hs[h] = "closed"], "close", h, "ok")

\* disconnect closing whatever is stored, without asking status() first.
disconnect_unguarded(s, env) ==
    IF s.connection = NoConnection
    THEN [s |-> s, raised |-> "AttributeError"]
    ELSE IF rdbms \in DBType
    THEN [s |-> close(s, env), raised |-> "none"]
    ELSE [s |-> s, raised |-> "ValueError"]

disconnect(s, env) ==
    LET st == status(s, env)
    IN  IF st.ret
        THEN IF rdbms \in DBType
             THEN [s |-> close(st.s, env), raised |-> "none"]
             ELSE [s |-> st.s, raised |-> "ValueError"]
        ELSE [s |-> st.s, raised |-> "none"]

\* ------------------------------------------------------------------ runSql
Raised(s, err) == [s |-> s, raised |-> err, ret |-> None, results |-> <<>>]

\* Whether the normalization of the branch taken lets an error of fetchall
\* out: only the PostgreSQL branch does, the Oracle branch fetching only on
\* a description, the SQL Server branch catching the error and MySQLdb
\* fetching nothing where there is no result set.
fetchallRaises(sql) == rdbms = POSTGRESQL /\ pgFetchRaises(sql)

\* dbExecute with the statement's DatabaseError logged and not re-raised.
dbExecute_swallow(s, sql, commit, kill, env, results) ==
    IF s.connection = NoConnection THEN Raised(s, "AttributeError")
    ELSE IF sql.kind = "bad" \/ s.hs[s.connection] # "open"
    THEN [s |-> Ev(s, "execute", s.connection, "fail"), raised |-> "none",
          ret |-> None, results |-> <<>>]
    ELSE IF fetchallRaises(sql)
    THEN [s |-> Ev(Ev(s, "execute", s.connection, "ok"),
                   "fetch", s.connection, "fail"),
          raised |-> "none", ret |-> None, results |-> <<>>]
    ELSE [s |-> Ev(s, "execute", s.connection, "ok"), raised |-> "none",
          ret |-> None, results |-> results]

\* dbExecute disconnecting before it commits.
dbExecute_killfirst(s, sql, commit, kill, env, results) ==
    IF s.connection = NoConnection THEN Raised(s, "AttributeError")
    ELSE
    LET h == s.connection
    IN  IF sql.kind = "bad" \/ s.hs[h] # "open"
        THEN Raised(Ev(s, "execute", h, "fail"), "DatabaseError")
        ELSE
        LET s1 == Ev(s, "execute", h, "ok")
            d == IF kill THEN disconnect(s1, env)
                 ELSE [s |-> s1, raised |-> "none"]
        IN  IF fetchallRaises(sql)
            THEN Raised(Ev(s1, "fetch", h, "fail"), "DatabaseError")
            ELSE IF d.raised # "none" THEN Raised(d.s, d.raised)
            ELSE IF commit /\ env.fault = "commit"
            THEN Raised(Ev(d.s, "commit", h, "fail"), "DatabaseError")
            ELSE [s |-> IF commit THEN Ev(d.s, "commit", h, "ok") ELSE d.s,
                  raised |-> "none", ret |-> None, results |-> results]

\* dbExecute skipping the statement when no connection is stored.
dbExecute_skipabsent(s, sql, commit, kill, env, results) ==
    IF s.connection = NoConnection
    THEN [s |-> s, raised |-> "none", ret |-> None, results |-> <<>>]
    ELSE
    LET h == s.connection
    IN  IF sql.kind = "bad" \/ s.hs[h] # "open"
        THEN Raised(Ev(s, "execute", h, "fail"), "DatabaseError")
        ELSE
        LET s1 == Ev(s, "execute", h, "ok")
        IN  IF fetchallRaises(sql)
            THEN Raised(Ev(s1, "fetch", h, "fail"), "DatabaseError")
            ELSE IF commit /\ env.fault = "commit"
            THEN Raised(Ev(s1, "commit", h, "fail"), "DatabaseError")
            ELSE
            LET s2 == IF commit THEN Ev(s1, "commit", h, "ok") ELSE s1
                d == IF kill THEN disconnect(s2, env)
                     ELSE [s |-> s2, raised |-> "none"]
            IN  IF d.raised # "none" THEN Raised(d.s, d.raised)
                ELSE [s |-> d.s, raised |-> "none", ret |-> None,
                      results |-> results]

\* One backend branch of runSql: cursor, execute, normalize, commit, kill.
dbExecute(s, sql, commit, kill, env, results) ==
    IF s.connection = NoConnection THEN Raised(s, "AttributeError")
    ELSE
    LET h == s.connection
    IN  IF sql.kind = "bad" \/ s.hs[h] # "open"
        THEN Raised(Ev(s, "execute", h, "fail"), "DatabaseError")
        ELSE
        LET s1 == Ev(s, "execute", h, "ok")
        IN  IF fetchallRaises(sql)
            THEN Raised(Ev(s1, "fetch", h, "fail"), "DatabaseError")
            ELSE IF commit /\ env.fault = "commit"
            THEN Raised(Ev(s1, "commit", h, "fail"), "DatabaseError")
            ELSE
            LET s2 == IF commit THEN Ev(s1, "commit", h, "ok") ELSE s1
                d == IF kill THEN disconnect(s2, env)
                     ELSE [s |-> s2, raised |-> "none"]
            IN  IF d.raised # "none" THEN Raised(d.s, d.raised)
                ELSE [s |-> d.s, raised |-> "none", ret |-> None,
                      results |-> results]

oracleRun(s, sql, commit, kill, env) ==
    dbExecute(s, sql, commit, kill, env, oracleResults(sql))
sqlServerRun(s, sql, commit, kill, env) ==
    dbExecute(s, sql, commit, kill, env, sqlServerResults(sql))
pgRun(s, sql, commit, kill, env) ==
    dbExecute(s, sql, commit, kill, env, pgResults(sql))
mySqlRun(s, sql, commit, kill, env) ==
    dbExecute(s, sql, commit, kill, env, mySqlResults(sql))

\* The if/elif chain of runSql over the rdbms; the final else builds a
\* ValueError and drops it, so results stays the empty list.
branches(s, sql, commit, kill, env) ==
    IF rdbms = ORACLE THEN oracleRun(s, sql, commit, kill, env)
    ELSE IF rdbms = SQL_SERVER THEN sqlServerRun(s, sql, commit, kill, env)
    ELSE IF rdbms = POSTGRESQL THEN pgRun(s, sql, commit, kill, env)
    ELSE IF rdbms = MYSQL THEN mySqlRun(s, sql, commit, kill, env)
    ELSE [s |-> s, raised |-> "none", ret |-> None, results |-> <<>>]

\* reconnect without the call of connect().
reconnect_never(s, env) ==
    [s |-> status(status(s, env).s, env).s, raised |-> "none"]

\* The status test and reconnect at the head of runSql.
reconnect(s, env) ==
    LET s1 == status(s, env).s
        st == status(s1, env)
    IN  IF ~st.ret THEN connect(st.s, env)
        ELSE [s |-> st.s, raised |-> "none"]

\* The tail of runSql: reduce to the first row, store, return.
\* finish storing the whole sequence although only its first row is returned.
finish_storeall(x, one) ==
    IF one /\ Len(x.results) = 0 THEN Raised(x.s, "IndexError")
    ELSE LET res == IF one THEN Row(x.results[1]) ELSE List(x.results)
         IN  [s |-> [x.s EXCEPT !.lastResult = List(x.results)],
              raised |-> "none", ret |-> res, results |-> x.results]

\* finish storing the sequence before it takes the first row.
finish_storefirst(x, one) ==
    IF one /\ Len(x.results) = 0
    THEN Raised([x.s EXCEPT !.lastResult = List(x.results)], "IndexError")
    ELSE LET res == IF one THEN Row(x.results[1]) ELSE List(x.results)
         IN  [s |-> [x.s EXCEPT !.lastResult = res], raised |-> "none",
              ret |-> res, results |-> x.results]

finish(x, one) ==
    IF one /\ Len(x.results) = 0 THEN Raised(x.s, "IndexError")
    ELSE LET res == IF one THEN Row(x.results[1]) ELSE List(x.results)
         IN  [s |-> [x.s EXCEPT !.lastResult = res], raised |-> "none",
              ret |-> res, results |-> x.results]

runSql(s, sql, one, commit, kill, env) ==
    LET c == reconnect(s, env)
    IN  IF c.raised # "none" THEN Raised(c.s, c.raised)
        ELSE LET x == branches(c.s, sql, commit, kill, env)
             IN  IF x.raised # "none" THEN x ELSE finish(x, one)

\* ------------------------------------------------- flush and makeDataFrame
\* flush clearing the last result and keeping the data frame built from it.
flush_keepframe(s) == [s EXCEPT !.lastResult = None]

flush(s) == [s EXCEPT !.lastResult = None, !.dataFrame = None]

\* pd.DataFrame.from_records: the frame is kept as the shape it was built of.
FrameOf(v) == [tag |-> "frame", n |-> IF v.tag = "list" THEN Len(v.rows) ELSE 1]

makeDataFrame(s) ==
    IF s.lastResult # None
    THEN [s |-> [s EXCEPT !.dataFrame = FrameOf(s.lastResult)],
          raised |-> "none", ret |-> FrameOf(s.lastResult)]
    ELSE [s |-> s, raised |-> "ValueError", ret |-> None]

\* ----------------------------------------------------------------- actions
\* The driver's choice env took part in the call: a fault that no driver
\* call met is the same call as one without the fault.
Met(env, ev) ==
    /\ env.fault = "open" =>
           \E i \in 1..Len(ev) : ev[i].e = "open" /\ ev[i].r = "fail"
    /\ env.fault = "commit" =>
           \E i \in 1..Len(ev) : ev[i].e = "commit" /\ ev[i].r = "fail"
    /\ env.fault \in {"close_open", "close_closed"} =>
           \E i \in 1..Len(ev) : ev[i].e = "close" /\ ev[i].r = "fail"
    /\ env.probeErr =>
           \E i \in 1..Len(ev) : ev[i].e = "probe" /\ ev[i].r = "error"

\* The driver's choices that can take part in a call at all: a probe can
\* only fail on a handle that is not open, a commit only when one is asked
\* for, a close only when the call closes.
Possible(env, commit, closes) ==
    /\ env.probeErr =>
           /\ connection # NoConnection
           /\ hs[connection] # "open"
           /\ rdbms \in {ORACLE, SQL_SERVER}
    /\ env.fault = "commit" => commit
    /\ env.fault \in {"close_open", "close_closed"} => closes

Update(s) ==
    /\ connection' = s.connection
    /\ lastResult' = s.lastResult
    /\ dataFrame' = s.dataFrame
    /\ hs' = s.hs
    /\ UNCHANGED <<rdbms, trail>>

Called(op, sql, one, commit, kill, raised, ret, results, ev) ==
    [op |-> op, sql |-> sql, one |-> one, commit |-> commit, kill |-> kill,
     raised |-> raised, ret |-> ret, results |-> results, ev |-> ev]

\* No call is pending: the caller is about to make its next call.
Idle == Called("idle", NoSql, FALSE, FALSE, FALSE, "none", None, <<>>, <<>>)

\* __init__: the fields start as None, and activate=True calls connect().
init(activate, env) ==
    LET s0 == [connection |-> NoConnection, lastResult |-> None,
               dataFrame |-> None, hs |-> [h \in Handles |-> "unopened"],
               ev |-> <<>>, oom |-> FALSE]
    IN  IF activate THEN connect(s0, env) ELSE [s |-> s0, raised |-> "none"]

Init ==
    /\ rdbms \in RdbmsValues
    /\ \E activate \in BOOLEAN, env \in Envs :
         LET r == init(activate, env)
         IN  /\ r.raised = "none"
             /\ Met(env, r.s.ev)
             /\ connection = r.s.connection
             /\ lastResult = r.s.lastResult
             /\ dataFrame = r.s.dataFrame
             /\ hs = r.s.hs
             /\ trail = 0
             /\ call = Called("init", NoSql, FALSE, FALSE, activate, "none",
                              None, <<>>, r.s.ev)

Connect ==
    /\ call = Idle
    /\ \E env \in Envs :
        /\ Possible(env, FALSE, FALSE)
        /\ \E r \in {connect(Self, env)} :
            /\ ~r.s.oom
            /\ Met(env, r.s.ev)
            /\ Update(r.s)
            /\ call' = Called("connect", NoSql, FALSE, FALSE, FALSE,
                              r.raised, None, <<>>, r.s.ev)

Disconnect ==
    /\ call = Idle
    /\ \E env \in Envs :
        /\ Possible(env, FALSE, TRUE)
        /\ \E r \in {disconnect(Self, env)} :
            /\ Met(env, r.s.ev)
            /\ Update(r.s)
            /\ call' = Called("disconnect", NoSql, FALSE, FALSE, FALSE,
                              r.raised, None, <<>>, r.s.ev)

Status ==
    /\ call = Idle
    /\ \E env \in Envs :
        /\ Possible(env, FALSE, FALSE)
        /\ \E r \in {status(Self, env)} :
            /\ Met(env, r.s.ev)
            /\ Update(r.s)
            /\ call' = Called("status", NoSql, FALSE, FALSE, FALSE,
                              "none", Bool(r.ret), <<>>, r.s.ev)

RunSql ==
    /\ call = Idle
    /\ \E sql \in Statements, one \in BOOLEAN, commit \in BOOLEAN,
       kill \in BOOLEAN, env \in Envs :
        /\ Possible(env, commit, kill)
        /\ \E r \in {runSql(Self, sql, one, commit, kill, env)} :
            /\ ~r.s.oom
            /\ Met(env, r.s.ev)
            /\ Update(r.s)
            /\ call' = Called("runSql", sql, one, commit, kill,
                              r.raised, r.ret, r.results, r.s.ev)

Flush ==
    /\ call = Idle
    /\ Update(flush(Self))
    /\ call' = Called("flush", NoSql, FALSE, FALSE, FALSE, "none", None,
                      <<>>, <<>>)

MakeDataFrame ==
    /\ call = Idle
    /\ \E r \in {makeDataFrame(Self)} :
        /\ Update(r.s)
        /\ call' = Called("makeDataFrame", NoSql, FALSE, FALSE, FALSE,
                          r.raised, r.ret, <<>>, <<>>)

\* The caller, single-threaded and synchronous, takes the outcome of the
\* call and is free to make the next one.
Return ==
    /\ call # Idle
    /\ call' = Idle
    /\ UNCHANGED <<rdbms, connection, lastResult, dataFrame, hs, trail>>

\* The same step, remembering whether the calls so far end with connect()
\* or with connect(), disconnect().
ReturnTrail ==
    /\ call # Idle
    /\ call' = Idle
    /\ trail' = IF call.op = "connect" THEN 1
                ELSE IF call.op = "disconnect" /\ trail = 1 THEN 2
                ELSE 0
    /\ UNCHANGED <<rdbms, connection, lastResult, dataFrame, hs>>

Next ==
    \/ Connect
    \/ Disconnect
    \/ Status
    \/ RunSql
    \/ Flush
    \/ MakeDataFrame
    \/ Return

Spec == Init /\ [][Next]_vars

NextTrail ==
    \/ Connect
    \/ Disconnect
    \/ Status
    \/ RunSql
    \/ Flush
    \/ MakeDataFrame
    \/ ReturnTrail

SpecTrail == Init /\ [][NextTrail]_vars

\* ------------------------------------------------------- what claims read
\* status() as a caller would get it in the current state.
StatusNow == status(Self, [fault |-> "none", probeErr |-> FALSE]).ret

\* The native connections that are open at the backend.
LiveHandles == {h \in Handles : hs[h] = "open"}

\* ---------------------------------------------------------- config lookup
\* A call of _getDetails for a connection name over a config file; it reads
\* the file and the name and changes nothing of the object.
GetDetails ==
    /\ call = Idle
    /\ \E connectionEntries \in ConfigFiles, name \in Names :
        \E r \in {getDetails(connectionEntries, name)} :
            call' = [op |-> "_getDetails", name |-> name,
                     connectionEntries |-> connectionEntries,
                     raised |-> r.raised, ret |-> r.ret]
    /\ UNCHANGED <<rdbms, connection, lastResult, dataFrame, hs, trail>>

NextDetails ==
    \/ GetDetails
    \/ Return

SpecDetails == Init /\ [][NextDetails]_vars

\* The driver events of the current call.
Has(e, r) == \E i \in 1..Len(call.ev) : call.ev[i].e = e /\ call.ev[i].r = r

\* The i-th row of a SELECT as a mapping keyed by the column names.
ExpectedRow(i) ==
    [c \in {"id", "name"} |-> IF c = "id" THEN RawRow(i)[1] ELSE RawRow(i)[2]]
ExpectedRows(n) == [i \in 1..n |-> ExpectedRow(i)]

\* What runSql hands back for a normalized sequence of rows.
Returned(one, rows) == IF one THEN Row(rows[1]) ELSE List(rows)

\* ---------------------------------------------------------------- claims
\* C1: a call runSql(sql, kill=True) that completes leaves status() false,
\* for every backend type and every prior state.  The code contradicts it:
\* when close() fails and the driver leaves the handle open, disconnect()
\* absorbs the failure and status() is still true.
C1_ClosedAfterExecute ==
    (call.op = "runSql" /\ call.kill /\ call.raised = "none") => ~StatusNow

\* C2: when runSql(sql, kill=False) is called while status() is false,
\* connect() is called before any statement is executed, and a statement is
\* only ever executed on a handle opened after that connect(), never on the
\* handle that was stored before the call.
C2_ReconnectBeforeExecute ==
    [][ (call'.op = "runSql" /\ ~call'.kill /\ ~StatusNow) =>
          \E c \in 1..Len(call'.ev) :
              /\ call'.ev[c].e = "connect"
              /\ \A i \in 1..Len(call'.ev) :
                    call'.ev[i].e = "execute" =>
                        /\ c < i
                        /\ call'.ev[i].h # connection
                        /\ \E j \in (c + 1)..(i - 1) :
                              /\ call'.ev[j].e = "open"
                              /\ call'.ev[j].r = "ok"
                              /\ call'.ev[j].h = call'.ev[i].h ]_vars

\* C2 witness: a runSql(kill=False) that found a stale handle, reconnected
\* and ran the statement on the new handle.
C2_Witness ==
    /\ call.op = "runSql" /\ ~call.kill /\ call.raised = "none"
    /\ \E i, j \in 1..Len(call.ev) :
          /\ call.ev[i].e = "probe" /\ call.ev[i].r # "alive"
          /\ call.ev[j].e = "execute" /\ call.ev[j].r = "ok"
          /\ call.ev[j].h # call.ev[i].h

\* C3: connect(); disconnect(); status() yields false, whatever the outcome
\* of the open and of the close.  The code contradicts it: a close() that
\* fails and leaves the handle open is absorbed, and status() is true.
C3_FalseAfterConnectDisconnect ==
    (call.op = "status" /\ trail = 2) => call.ret = Bool(FALSE)

\* C4: status() never raises; it is false without a probe when there is no
\* connection object, false when the probe reports not-alive or fails, and
\* true only when a connection object exists and its probe reports alive.
C4_StatusFollowsProbe ==
    call.op = "status" =>
        /\ call.raised = "none"
        /\ connection = NoConnection =>
               (call.ret = Bool(FALSE) /\ call.ev = <<>>)
        /\ (Has("probe", "notalive") \/ Has("probe", "error")) =>
               call.ret = Bool(FALSE)
        /\ call.ret = Bool(TRUE) =>
               /\ connection # NoConnection
               /\ call.ev = <<[e |-> "probe", h |-> connection, r |-> "alive"]>>

\* C4 witness: status() on a handle whose probe failed returned false.
C4_Witness ==
    /\ call.op = "status" /\ Has("probe", "error")
    /\ call.ret = Bool(FALSE)

\* C5: a statement the backend fails is always raised to the caller of
\* runSql, which then returns no result, on every backend; a failed open
\* or close is absorbed: connect() and disconnect() do not raise on it, and
\* a failed close does not make runSql raise.
C5_StatementErrorPropagates ==
    /\ (call.op = "runSql" /\ Has("execute", "fail")) =>
           (call.raised = "DatabaseError" /\ call.ret = None)
    /\ (call.op = "runSql" /\ call.sql.kind = "bad") => call.raised # "none"
    /\ (call.op = "connect" /\ Has("open", "fail")) => call.raised = "none"
    /\ (call.op = "disconnect" /\ Has("close", "fail")) =>
           call.raised = "none"
    /\ (call.op = "runSql" /\ Has("close", "fail")) =>
           call.raised \in {"none", "IndexError"}

\* C5 witness: a bad statement reached the backend and runSql raised.
C5_Witness ==
    /\ call.op = "runSql" /\ call.sql.kind = "bad"
    /\ Has("execute", "fail") /\ call.raised = "DatabaseError"

\* C6: when the backend fails to open, connect() does not raise and the
\* object is left with no connection object, so status() is false: neither
\* a half-open handle nor the handle held before remains stored.
C6_FailedOpenStoresNothing ==
    /\ (call.op \in {"connect", "init"} /\ Has("open", "fail")) =>
           call.raised = "none"
    /\ Has("open", "fail") => (connection = NoConnection /\ ~StatusNow)

\* C6 witness: connect() on an object that held an open handle failed to
\* open, and the object holds no handle.
C6_Witness ==
    /\ call.op = "connect" /\ Has("open", "fail")
    /\ call.ev[1].h # NoConnection
    /\ connection = NoConnection

\* C7: at most one native connection of the object is live, and a live one
\* is the stored one.  The code contradicts it: connect() opens a new handle
\* and overwrites the stored one without closing it.
C7_AtMostOneLive ==
    /\ Cardinality(LiveHandles) <= 1
    /\ \A h \in LiveHandles : h = connection

\* C8: when runSql(kill=True) raises because the statement failed, the
\* handle the call used is released.  The code contradicts it: the except
\* clause re-raises without calling disconnect().
C8_ReleasedOnStatementError ==
    (call.op = "runSql" /\ call.kill /\ Has("execute", "fail")) =>
        \A i \in 1..Len(call.ev) :
            call.ev[i].e = "execute" => hs[call.ev[i].h] # "open"

\* C9: on each of the four backends a statement that produces no rows and
\* affects K rows makes runSql return exactly one row, {"Row(s) affected":
\* K} (that row itself when only the first row was asked for).  The code
\* contradicts it on PostgreSQL: a statement of no rows whose tag is SELECT
\* and whose row count is above zero (CREATE TABLE AS, SELECT INTO) has
\* fetchall called on it, and runSql raises instead of returning.
C9_AffectedRow ==
    (/\ call.op = "runSql" /\ rdbms \in DBType
     /\ call.sql.kind = "dml"
     /\ Has("execute", "ok") /\ ~Has("commit", "fail")) =>
        /\ call.raised = "none"
        /\ call.results = <<AffectedRow(call.sql.n)>>
        /\ call.ret = Returned(call.one, <<AffectedRow(call.sql.n)>>)

\* C10 as stated: on each backend and for every N >= 0, a row-producing
\* statement yielding N rows normalizes to exactly N row-mappings in cursor
\* order, keyed by the column names.  Fails for N = 0 on PostgreSQL and
\* MySQL, and on PostgreSQL for every N when the tag is not SELECT.
C10_Original ==
    (call.op = "runSql" /\ call.raised = "none" /\ call.sql.kind = "select")
        => call.results = ExpectedRows(call.sql.n)

\* C10 amended: runSql(one=False) on a row-producing statement yielding N
\* rows, once the statement has executed (and the commit asked for has not
\* failed), returns normally; what it returns is the sequence of exactly N
\* row-mappings in cursor order, keyed by the column names, on Oracle and
\* SQL Server for every N >= 0, on MySQL for N >= 1, and on PostgreSQL for
\* N >= 1 when the status tag is SELECT; on MySQL for N = 0, and on
\* PostgreSQL for N = 0 or under any other tag, it is the one row
\* {"Row(s) affected": N}.
C10_RowsInCursorOrder ==
    (/\ call.op = "runSql" /\ rdbms \in DBType
     /\ call.sql.kind = "select" /\ ~call.one
     /\ Has("execute", "ok") /\ ~Has("commit", "fail")) =>
        LET N == call.sql.n
            fetched ==
                \/ rdbms \in {ORACLE, SQL_SERVER}
                \/ rdbms = MYSQL /\ N >= 1
                \/ rdbms = POSTGRESQL /\ N >= 1
                      /\ statusmessage(call.sql) = "SELECT"
        IN  /\ call.raised = "none"
            /\ fetched =>
                   /\ call.results = ExpectedRows(N)
                   /\ Len(call.results) = N
                   /\ \A i \in 1..Len(call.results) :
                          DOMAIN call.results[i] =
                              {Columns[j] : j \in 1..Len(Columns)}
            /\ ~fetched => call.results = <<AffectedRow(N)>>
            /\ call.ret = List(call.results)

\* C10 witness: on PostgreSQL a statement yielding MaxRows rows under the
\* tag SELECT returned them all, in order.
C10_Witness ==
    /\ call.op = "runSql" /\ rdbms = POSTGRESQL
    /\ call.sql = [kind |-> "select", n |-> MaxRows, tag |-> "SELECT"]
    /\ ~call.one
    /\ call.ret = List(ExpectedRows(MaxRows))
    /\ MaxRows >= 2

\* C11: on PostgreSQL a SELECT that returns no rows yields the one row
\* {"Row(s) affected": 0} and not an empty sequence; the result is the
\* fetched rows only when the statement is a SELECT and its row count is
\* above zero, and the affected-rows row in every other case.
C11_PgZeroRowSelect ==
    (rdbms = POSTGRESQL /\ call.op = "runSql" /\ call.raised = "none") =>
        /\ (call.sql.kind = "select" /\ call.sql.n = 0) =>
               /\ call.results = <<AffectedRow(0)>>
               /\ call.results # <<>>
               /\ call.ret = Returned(call.one, <<AffectedRow(0)>>)
        /\ (call.results = fetchDicts(call.sql)) <=>
               (statusmessage(call.sql) = "SELECT" /\ rowcount(call.sql) > 0)
        /\ ~(statusmessage(call.sql) = "SELECT" /\ rowcount(call.sql) > 0) =>
               call.results = <<AffectedRow(rowcount(call.sql))>>

\* C11 witness: PostgreSQL ran a SELECT of no rows and returned the
\* affected-rows row.
C11_Witness ==
    /\ rdbms = POSTGRESQL /\ call.op = "runSql"
    /\ call.sql = [kind |-> "select", n |-> 0, tag |-> "SELECT"]
    /\ ~call.one
    /\ call.ret = List(<<AffectedRow(0)>>)
    /\ Has("execute", "ok")

\* C12: runSql(sql, one=True) on a statement whose normalized result is the
\* empty sequence fails with an explicit EmptyResultError and not with an
\* unguarded index fault.  The code contradicts it: results[0] is taken
\* without a test and the empty list raises IndexError.
C12_EmptyResultError ==
    (/\ call.op = "runSql" /\ call.one
     /\ Has("execute", "ok") /\ ~Has("fetch", "fail")
     /\ ~Has("commit", "fail")
     /\ \/ rdbms = ORACLE /\ oracleResults(call.sql) = <<>>
        \/ rdbms = SQL_SERVER /\ sqlServerResults(call.sql) = <<>>
        \/ rdbms = POSTGRESQL /\ pgResults(call.sql) = <<>>
        \/ rdbms = MYSQL /\ mySqlResults(call.sql) = <<>>)
        => (call.raised = "EmptyResultError" /\ call.raised # "IndexError")

\* C13: for an rdbms outside the four supported ones, connect() raises the
\* unknown-backend error at once, before any driver is called, and runSql
\* never returns a result: it raises, returns nothing, sends no statement
\* and leaves lastResult as it was (never set).
C13_UnknownBackendRaises ==
    rdbms \notin DBType =>
        /\ call.op = "connect" =>
               /\ call.raised = "ValueError"
               /\ \A i \in 1..Len(call.ev) : call.ev[i].e = "connect"
        /\ call.op = "runSql" =>
               /\ call.raised = "ValueError"
               /\ call.ret = None
               /\ \A i \in 1..Len(call.ev) : call.ev[i].e = "connect"
        /\ lastResult = None
        /\ connection = NoConnection

\* C13 witness: runSql on an unsupported rdbms raised from its connect().
C13_Witness ==
    /\ rdbms = OtherType /\ call.op = "runSql"
    /\ call.raised = "ValueError" /\ call.ret = None
    /\ Len(call.ev) = 1 /\ call.ev[1].e = "connect"
    /\ lastResult = None

\* C14: flush() sets lastResult, and the data frame derived from it, to
\* None, and leaves the stored connection, every native handle and the value
\* of status() exactly as they were, from every reachable state.
C14_FlushClearsResultOnly ==
    [][ call'.op = "flush" =>
          /\ lastResult' = None
          /\ dataFrame' = None
          /\ connection' = connection
          /\ hs' = hs
          /\ StatusNow' = StatusNow
          /\ call'.raised = "none" ]_vars

\* C14 witness: a flush() on a live connection has left it live and the
\* result and data frame empty.
C14_Witness ==
    /\ call.op = "flush"
    /\ lastResult = None /\ dataFrame = None
    /\ connection # NoConnection /\ StatusNow

\* C15: the lookup by name returns the first entry, in file order, that is
\* both active and of that name; entries of the name that are not active are
\* passed over, also when they come first; when no entry is both active and
\* of the name the lookup fails with the not-found error.
C15_FirstActiveMatch ==
    call.op = "_getDetails" =>
        LET es == call.connectionEntries
            match(i) == es[i]["active"] /\ es[i]["connection-name"] = call.name
        IN  /\ (\E i \in 1..Len(es) : match(i)) =>
                  /\ call.raised = "none"
                  /\ \E i \in 1..Len(es) :
                        /\ match(i)
                        /\ \A j \in 1..(i - 1) : ~match(j)
                        /\ call.ret = es[i]
                  /\ call.ret["active"]
                  /\ call.ret["connection-name"] = call.name
            /\ (\A i \in 1..Len(es) : ~match(i)) =>
                  /\ call.raised = "ValueError"
                  /\ call.ret = None

\* C15 witness: the entry of the name that comes first is not active, and
\* the lookup returned the active entry after it.
C15_Witness ==
    /\ call.op = "_getDetails" /\ call.raised = "none"
    /\ Len(call.connectionEntries) = 2
    /\ call.connectionEntries[1]["connection-name"] = call.name
    /\ ~call.connectionEntries[1]["active"]
    /\ call.connectionEntries[1]["rdbms"] # call.connectionEntries[2]["rdbms"]
    /\ call.ret = call.connectionEntries[2]

\* C16: a runSql(commit=True) that returns normally has committed exactly
\* once, after the statement was executed and before the close of
\* kill=True; a runSql(commit=False) issues no commit at all; and a commit
\* is never issued on a handle that has been closed: it goes to the handle
\* the statement just ran on, ahead of every close of the call.
C16_CommitBetweenExecuteAndClose ==
    call.op = "runSql" =>
        LET ev == call.ev
            Commits == {i \in 1..Len(ev) : ev[i].e = "commit"}
        IN  /\ ~call.commit => Commits = {}
            /\ (call.commit /\ call.raised = "none") =>
                  /\ Cardinality(Commits) = 1
                  /\ \A c \in Commits : ev[c].r = "ok"
            /\ \A c \in Commits :
                  /\ c > 1
                  /\ ev[c - 1].e = "execute" /\ ev[c - 1].r = "ok"
                  /\ ev[c - 1].h = ev[c].h
                  /\ \A k \in 1..Len(ev) : ev[k].e = "close" => k > c
            /\ (call.kill /\ call.raised = "none") =>
                  \A c \in Commits :
                      \E k \in (c + 1)..Len(ev) :
                          ev[k].e = "close" /\ ev[k].h = ev[c].h

\* C16 witness: a runSql(commit=True, kill=True) executed, committed and
\* then closed, in that order.
C16_Witness ==
    /\ call.op = "runSql" /\ call.commit /\ call.kill
    /\ call.raised = "none"
    /\ \E i, c, k \in 1..Len(call.ev) :
          /\ i < c /\ c < k
          /\ call.ev[i].e = "execute" /\ call.ev[i].r = "ok"
          /\ call.ev[c].e = "commit" /\ call.ev[c].r = "ok"
          /\ call.ev[k].e = "close" /\ call.ev[k].r = "ok"

\* C17: disconnect() does nothing when status() is false: the driver's
\* close is called only on the stored handle and only while that handle is
\* open, never on an absent or closed one, so a handle that is closed is
\* never closed again and two disconnect() calls in a row close it at most
\* once; a close that fails is absorbed, and disconnect() raises nothing.
C17_DisconnectOnlyWhenAlive ==
    [][ /\ \A h \in Handles : hs[h] = "closed" => hs'[h] = "closed"
        /\ call'.op = "disconnect" =>
             LET ev == call'.ev
                 Closes == {i \in 1..Len(ev) : ev[i].e = "close"}
             IN  /\ call'.raised = "none"
                 /\ ~StatusNow =>
                       /\ Closes = {}
                       /\ hs' = hs
                       /\ connection' = connection
                 /\ Cardinality(Closes) <= 1
                 /\ \A i \in Closes :
                       /\ connection # NoConnection
                       /\ ev[i].h = connection
                       /\ hs[connection] = "open"
                 /\ \A h \in Handles :
                       hs'[h] # hs[h] => (h = connection /\ Closes # {})
      ]_vars

\* C17 witness: disconnect() on a handle that is already closed asked the
\* driver whether it is alive and called no close.
C17_Witness ==
    /\ call.op = "disconnect" /\ call.raised = "none"
    /\ connection # NoConnection /\ hs[connection] = "closed"
    /\ Has("probe", "notalive")
    /\ \A i \in 1..Len(call.ev) : call.ev[i].e # "close"

\* C18: when runSql returns normally lastResult is the value it returned,
\* the whole normalized sequence for one=False and the first row alone, not
\* the sequence it was taken from, for one=True; and lastResult changes in
\* no step other than a runSql or a flush().
C18_LastResultIsReturned ==
    [][ /\ (call'.op = "runSql" /\ call'.raised = "none") =>
              /\ lastResult' = call'.ret
              /\ ~call'.one => lastResult' = List(call'.results)
              /\ call'.one =>
                    /\ Len(call'.results) >= 1
                    /\ lastResult' = Row(call'.results[1])
                    /\ lastResult' # List(call'.results)
        /\ lastResult' # lastResult => call'.op \in {"runSql", "flush"}
      ]_vars

\* C18 witness: a runSql(one=True) over a result of several rows has stored
\* and returned the first row.
C18_Witness ==
    /\ call.op = "runSql" /\ call.one /\ call.raised = "none"
    /\ Len(call.results) >= 2
    /\ lastResult = Row(ExpectedRow(1))
    /\ call.ret = lastResult

\* C19: a runSql that raises, whether from the statement, the commit, an
\* unsupported rdbms, a reconnect that opened nothing or the first row of an
\* empty result, leaves lastResult exactly as it was before the call.
C19_RaiseKeepsLastResult ==
    [][ (call'.op = "runSql" /\ call'.raised # "none") =>
            (lastResult' = lastResult /\ call'.ret = None) ]_vars

\* C19 witness: a runSql raised on the first row of an empty result while
\* an earlier result was stored, and that result is still there.
C19_Witness ==
    /\ call.op = "runSql" /\ call.raised = "IndexError"
    /\ lastResult # None

\* C20: when runSql finds status() false and the connect() it calls opens
\* nothing, the open failure being absorbed, runSql returns no result: it
\* raises, no statement reaches any handle, and the object is left with no
\* connection stored and status() false.
C20_FailedReconnectRaises ==
    [][ (/\ call'.op = "runSql"
         /\ ~StatusNow
         /\ \E i \in 1..Len(call'.ev) :
               call'.ev[i].e = "open" /\ call'.ev[i].r = "fail") =>
            /\ call'.raised # "none"
            /\ call'.ret = None
            /\ \A i \in 1..Len(call'.ev) :
                  call'.ev[i].e \notin {"execute", "commit", "close"}
            /\ connection' = NoConnection
            /\ ~StatusNow' ]_vars

\* C20 witness: a runSql whose reconnect failed to open raised on the
\* absent connection, with no statement executed.
C20_Witness ==
    /\ call.op = "runSql" /\ call.raised = "AttributeError"
    /\ Has("open", "fail") /\ ~Has("execute", "ok") /\ ~Has("execute", "fail")
    /\ connection = NoConnection


\* C21: on PostgreSQL and MySQL every sequence runSql(one=False) returns has
\* at least one row, a fetch of no rows being replaced by the one row
\* {"Row(s) affected": rowcount}, so runSql(one=True) never fails on the
\* first row of an empty result there; on Oracle and SQL Server a SELECT of
\* no rows returns the empty sequence.
C21_NeverEmptyOnPgAndMySql ==
    call.op = "runSql" =>
        /\ rdbms \in {POSTGRESQL, MYSQL} =>
              /\ call.raised # "IndexError"
              /\ call.raised = "none" =>
                    /\ Len(call.results) >= 1
                    /\ ~call.one =>
                          /\ call.ret = List(call.results)
                          /\ call.ret # List(<<>>)
                    /\ call.one => call.ret = Row(call.results[1])
                    /\ Len(fetchDicts(call.sql)) = 0 =>
                          call.results = <<AffectedRow(rowcount(call.sql))>>
        /\ (/\ rdbms \in {ORACLE, SQL_SERVER}
            /\ call.sql.kind = "select" /\ call.sql.n = 0
            /\ call.raised = "none") =>
              /\ ~call.one
              /\ call.results = <<>>
              /\ call.ret = List(<<>>)

\* C21 witness: on MySQL a SELECT of no rows with one=True returned the
\* affected-rows row instead of failing on an empty result.
C21_Witness ==
    /\ rdbms = MYSQL /\ call.op = "runSql" /\ call.one
    /\ call.sql = [kind |-> "select", n |-> 0, tag |-> "SELECT"]
    /\ call.raised = "none"
    /\ call.ret = Row(AffectedRow(0))
    /\ Has("execute", "ok")

====
